---- MODULE Spec2Model ----
(***************************************************************************)
(* hums-card-gateway: a serial card reader to HTTP relay.                  *)
(*                                                                         *)
(* Strings are sequences of one-character strings.  The JavaScript value   *)
(* null is the one-element sequence Null, which no string equals.          *)
(***************************************************************************)
EXTENDS Integers, Sequences, FiniteSets, TLC

Null == <<"null">>

Min(a, b) == IF a <= b THEN a ELSE b

Max(a, b) == IF a >= b THEN a ELSE b

(***************************************************************************)
(* Card parsers (parsers.js)                                               *)
(***************************************************************************)

CARD_ID_LENGTH == 9

\* the issuer prefix "601770"
IssuerPrefix == <<"6", "0", "1", "7", "7", "0">>

\* the characters \d matches
DecimalDigits == {"0", "1", "2", "3", "4", "5", "6", "7", "8", "9"}

\* /^\d+$/.test(s)
IsDecimal(s) == Len(s) >= 1 /\ \A i \in 1..Len(s) : s[i] \in DecimalDigits

\* s.includes(c)
Includes(s, c) == \E i \in 1..Len(s) : s[i] = c

\* s.indexOf(c), 0-based, -1 when absent
IndexOf(s, c) ==
    IF Includes(s, c)
    THEN (CHOOSE i \in 1..Len(s) : s[i] = c /\ \A j \in 1..(i - 1) : s[j] # c) - 1
    ELSE -1

\* s.startsWith(p)
StartsWith(s, p) == Len(s) >= Len(p) /\ SubSeq(s, 1, Len(p)) = p

\* s.slice(start, end): negative indices count from the end, both are clamped
Slice(s, start, end) ==
    LET from == IF start < 0 THEN Max(Len(s) + start, 0) ELSE Min(start, Len(s))
        to   == IF end < 0 THEN Max(Len(s) + end, 0) ELSE Min(end, Len(s))
    IN  IF from >= to THEN <<>> ELSE SubSeq(s, from + 1, to)

\* s.slice(start)
SliceFrom(s, start) == Slice(s, start, Len(s))

\* s.padStart(n, c)
PadStart(s, n, c) ==
    IF Len(s) >= n THEN s ELSE [i \in 1..(n - Len(s)) |-> c] \o s

\* s.split(c)
RECURSIVE Split(_, _)
Split(s, c) ==
    LET i == IndexOf(s, c)
    IN  IF i = -1 THEN <<s>>
        ELSE <<Slice(s, 0, i)>> \o Split(SliceFrom(s, i + 1), c)

\* segments.find((s) => s.startsWith("601770")); Null stands for undefined
FindSegment(segments) ==
    IF \E i \in 1..Len(segments) : StartsWith(segments[i], IssuerPrefix)
    THEN segments[CHOOSE i \in 1..Len(segments) :
                     /\ StartsWith(segments[i], IssuerPrefix)
                     /\ \A j \in 1..(i - 1) : ~StartsWith(segments[j], IssuerPrefix)]
    ELSE Null

\* a slip: the check digit is kept
FullBodyKeepsCheck(seg) == SliceFrom(seg, 9)

\* a field is cut to the span [9, -1)
FullBody(seg) == Slice(seg, 9, -1)

\* the result is padded, never cut
FullResult(body) == PadStart(body, CARD_ID_LENGTH, "0")

fullParser(raw) ==
    IF ~Includes(raw, "=") THEN Null
    ELSE LET seg == FindSegment(Split(raw, "="))
         IN  IF seg = Null \/ seg = <<>> THEN Null
             ELSE LET body == FullBody(seg)
                  IN  IF body = <<>> \/ ~IsDecimal(body) THEN Null
                      ELSE FullResult(body)

\* /^601770\d{10}$/.test(raw)
IsMobile(raw) ==
    /\ Len(raw) = 16
    /\ StartsWith(raw, IssuerPrefix)
    /\ \A i \in 7..16 : raw[i] \in DecimalDigits

\* a slip: the mobile form is cut like a field
mobileParserCut(raw) == IF IsMobile(raw) THEN Slice(raw, 9, -1) ELSE Null

mobileParser(raw) == IF IsMobile(raw) THEN raw ELSE Null

\* /^\d+$/.test(raw) && raw.length <= CARD_ID_LENGTH
IsShort(raw) == IsDecimal(raw) /\ Len(raw) <= CARD_ID_LENGTH

\* a slip: the short form is returned as read (the README's table)
shortParserAsRead(raw) == IF IsShort(raw) THEN raw ELSE Null

shortParser(raw) ==
    IF IsShort(raw) THEN PadStart(raw, CARD_ID_LENGTH, "0") ELSE Null

\* builtinParsers = [fullParser, mobileParser, shortParser], applied by index
ApplyParser(k, raw) ==
    CASE k = 1 -> fullParser(raw)
      [] k = 2 -> mobileParser(raw)
      [] k = 3 -> shortParser(raw)

NumParsers == 3

\* a slip: only the parser at hand is asked
FirstResultNoFallThrough(k, raw) == ApplyParser(k, raw)

\* createCardParser(builtinParsers): the first result that is not null
RECURSIVE FirstResult(_, _)
FirstResult(k, raw) ==
    IF k > NumParsers THEN Null
    ELSE LET result == ApplyParser(k, raw)
         IN  IF result # Null THEN result ELSE FirstResult(k + 1, raw)

parseCardData(raw) == FirstResult(1, raw)

(***************************************************************************)
(* Bounds of the model                                                     *)
(***************************************************************************)

\* serial handles that exist at the same time
MaxHandles == 2

\* devices in one enumeration
MaxPorts == 2

\* largest sendRetries a configuration file sets
MaxRetries == 2

\* scan events created in one run, when deliveries are followed on their own
MaxScans == 2

\* scan events created in one run of the whole program
MaxScansAll == 1

\* characters buffered by one data handler call
MaxBuf == 4

\* distinct version markers
MaxVersion == 2

\* checkForUpdates calls awaiting their fetch at the same time
MaxChecks == 1

\* request errors after the end of the response tried in a run
MaxLateErrors == 1

VARIABLES
    variant,        \* "serialport" (src/src/index.js) or "fsstream" (src/unnamed/part_000)
    cfgFile,        \* config.json: whether it exists, and its fields
    attached,       \* the devices the host enumerates, in enumeration order
    proc,           \* "boot", "running" or "exited"
    exitCode,       \* the status the process exited with, -1 before
    config,         \* the object loadConfig returned, NoConfig before
    port,           \* the handle the module variable port/stream refers to, 0 for null
    reconnectTimer, \* the pending Timeout the module variable refers to; 0 for null
                    \* and for a Timeout that fired or was cleared, which
                    \* clearTimeout treats like null
    timers,         \* the pending setTimeout(connectScanner) timers
    handles,        \* every serial handle: state, queued events, line buffer, path
    scans,          \* every scan event with the state of its delivery
    versionFile,    \* the content of .version, 0 when missing or empty
    firstFetch,     \* the fetch startUpdateLoop started is in flight
    checking,       \* checkForUpdates calls awaiting their fetch
    logs,           \* what the last handler logged
    raw,            \* the line given to parseCardData on its own
    parsed          \* its result, <<>> before the call

vars == <<variant, cfgFile, attached, proc, exitCode, config, port, reconnectTimer,
          timers, handles, scans, versionFile, firstFetch, checking, logs, raw, parsed>>

(***************************************************************************)
(* Configuration                                                           *)
(***************************************************************************)

\* a || b for strings
OrElse(a, b) == IF a = <<>> \/ a = Null THEN b ELSE a

\* a || b for numbers
OrElseNum(a, b) == IF a = 0 THEN b ELSE a

DefaultSendRetries == 3

\* a slip: only the presence of the file is checked
ConfigValidFileOnly(file) == file.exists

\* loadConfig exits when the file or a required field is missing
ConfigValid(file) ==
    /\ file.exists
    /\ file.endpoint # <<>>
    /\ file.deviceName # <<>>

\* the object loadConfig returns
loadConfig(file) ==
    [ serialPath  |-> OrElse(file.serialPath, Null),
      vendorId    |-> OrElse(file.vendorId, Null),
      productId   |-> OrElse(file.productId, Null),
      endpoint    |-> file.endpoint,
      deviceName  |-> file.deviceName,
      sendRetries |-> OrElseNum(file.sendRetries, DefaultSendRetries) ]

\* the module constant config before loadConfig has returned
NoConfig ==
    [ serialPath |-> Null, vendorId |-> Null, productId |-> Null,
      endpoint |-> <<>>, deviceName |-> <<>>, sendRetries |-> 0 ]

(***************************************************************************)
(* Serial device discovery                                                 *)
(***************************************************************************)

\* the path of the device at place i of an enumeration
PathNames == <<"/dev/ttyUSB0", "/dev/ttyUSB1", "/dev/ttyUSB2", "/dev/ttyUSB3">>

DevPath(i) == <<PathNames[i]>>

\* c.toLowerCase() of one character
LowerChar(c) ==
    CASE c = "A" -> "a"
      [] c = "B" -> "b"
      [] c = "C" -> "c"
      [] c = "D" -> "d"
      [] c = "E" -> "e"
      [] c = "F" -> "f"
      [] OTHER -> c

\* s.toLowerCase()
ToLowerCase(s) == [i \in 1..Len(s) |-> LowerChar(s[i])]

\* config.vendorId ? config.vendorId.toLowerCase() : null
Want(id) == IF id = Null \/ id = <<>> THEN Null ELSE ToLowerCase(id)

\* (p.vendorId || "").toLowerCase()
Have(id) == ToLowerCase(OrElse(id, <<>>))

\* the filter callback of findSerialPath
PortMatches(p, wantVid, wantPid) ==
    /\ ~(wantVid # Null /\ Have(p.vendorId) # wantVid)
    /\ ~(wantPid # Null /\ Have(p.productId) # wantPid)

\* ports.filter(f): the places kept, in order
RECURSIVE FilterPlaces(_, _, _, _)
FilterPlaces(ports, i, wantVid, wantPid) ==
    IF i > Len(ports) THEN <<>>
    ELSE (IF PortMatches(ports[i], wantVid, wantPid) THEN <<i>> ELSE <<>>)
         \o FilterPlaces(ports, i + 1, wantVid, wantPid)

\* a slip: the last match is taken
PickLast(matching) == matching[Len(matching)]

\* matching[0]
PickMatch(matching) == matching[1]

\* a slip: "use first available port", whatever their number
FallbackFirstAvailable(ports) == IF Len(ports) >= 1 THEN ports[1].path ELSE Null

\* what findSerialPath does when the filter matched nothing, or there is none
FallbackPath(ports) == IF Len(ports) = 1 THEN ports[1].path ELSE Null

\* findSerialPath(): the path it returns and whether it logged the ambiguity
findSerialPath(cfg, ports) ==
    IF cfg.serialPath # Null /\ cfg.serialPath # <<>>
    THEN [path |-> cfg.serialPath, multiple |-> FALSE]
    ELSE LET wantVid  == Want(cfg.vendorId)
             wantPid  == Want(cfg.productId)
             matching == FilterPlaces(ports, 1, wantVid, wantPid)
         IN  IF (wantVid # Null \/ wantPid # Null) /\ Len(matching) >= 1
             THEN [path |-> ports[PickMatch(matching)].path,
                   multiple |-> Len(matching) > 1]
             ELSE [path |-> FallbackPath(ports), multiple |-> FALSE]

(***************************************************************************)
(* Serial connection.  The connection manager's state is passed through    *)
(* its functions as a record c = [port, reconnectTimer, timers, handles,   *)
(* logs].                                                                  *)
(***************************************************************************)

HandleIds == 1..MaxHandles

\* no SerialPort / ReadStream object
FreeHandle == [state |-> "free", pend |-> {}, buf |-> <<>>, path |-> Null]

Conn == [port |-> port, reconnectTimer |-> reconnectTimer, timers |-> timers,
         handles |-> handles, logs |-> <<>>]

\* a log entry is the message followed by the data logged with it
Log(c, msg) == [c EXCEPT !.logs = Append(@, <<msg>>)]

LogWith(c, msg, data) == [c EXCEPT !.logs = Append(@, <<msg, data>>)]

\* clearTimeout(reconnectTimer)
ClearReconnectTimer(c) ==
    [c EXCEPT !.timers = @ \ {c.reconnectTimer}, !.reconnectTimer = 0]

\* reconnectTimer = setTimeout(connectScanner, config.reconnectInterval):
\* a new Timeout object
SetReconnectTimer(c) ==
    LET t == CHOOSE n \in 1..(Cardinality(c.timers) + 1) : n \notin c.timers
    IN  [c EXCEPT !.timers = @ \cup {t}, !.reconnectTimer = t]

\* a pending timer fires
FireTimer(c, t) ==
    [c EXCEPT !.timers = @ \ {t},
              !.reconnectTimer = IF @ = t THEN 0 ELSE @]

\* port.close() of serialport: an open port closes and emits "close" later,
\* any other emits the error "Port is not open" later
ClosePort(hs, h) ==
    IF hs[h].state = "open"
    THEN [hs EXCEPT ![h].state = "closed", ![h].pend = @ \cup {"close"}]
    ELSE [hs EXCEPT ![h].pend = @ \cup {"error"}]

\* stream.destroy() of fs.ReadStream: emits "close" later, once
DestroyStream(hs, h) ==
    IF hs[h].state = "closed" THEN hs
    ELSE [hs EXCEPT ![h].state = "closed", ![h].pend = @ \cup {"close"}]

\* try { port.close(); } catch {}   /   stream.destroy()
Teardown(hs, h) ==
    IF variant = "serialport" THEN ClosePort(hs, h) ELSE DestroyStream(hs, h)

\* a slip: the pending timer is not cleared
scheduleReconnectKeepsTimer(c) ==
    LET c1 == IF c.port # 0
              THEN [c EXCEPT !.handles = Teardown(c.handles, c.port), !.port = 0]
              ELSE c
    IN  SetReconnectTimer(c1)

scheduleReconnect(c) ==
    LET c1 == IF c.port # 0
              THEN [c EXCEPT !.handles = Teardown(c.handles, c.port), !.port = 0]
              ELSE c
    IN  SetReconnectTimer(ClearReconnectTimer(c1))

\* a handle id no object uses
NewHandle(hs) == CHOOSE h \in HandleIds : hs[h].state = "free"

\* a slip: one buffer for every connection, so that a new handle starts
\* with what a closed one left
OpenHandleSharedBuf(c, path) ==
    LET h    == NewHandle(c.handles)
        left == { g \in HandleIds : c.handles[g].state = "closed"
                                       /\ c.handles[g].buf # <<>> }
    IN  [c EXCEPT !.port = h,
                  !.handles[h] = [state |-> IF variant = "serialport"
                                            THEN "opening" ELSE "open",
                                  pend |-> {},
                                  buf |-> IF left = {} THEN <<>>
                                          ELSE c.handles[CHOOSE g \in left : TRUE].buf,
                                  path |-> path]]

\* new SerialPort({path, autoOpen: false}) ... port.open(cb)
\* fs.createReadStream(devicePath): the log line says it is open at once
OpenHandle(c, path) ==
    LET h == NewHandle(c.handles)
    IN  [c EXCEPT !.port = h,
                  !.handles[h] = [state |-> IF variant = "serialport"
                                            THEN "opening" ELSE "open",
                                  pend |-> {}, buf |-> <<>>, path |-> path]]

\* a slip: the catch block only logs and returns
OnConfigureFailedReturns(c) == Log(c, "Failed to configure serial port")

\* the catch block around configurePort
OnConfigureFailed(c) ==
    SetReconnectTimer(Log(c, "Failed to configure serial port"))

\* connectScanner(); configured is whether configurePort (stty) succeeded
connectScanner(c, cfg, ports, configured) ==
    LET c1    == ClearReconnectTimer(c)
        found == findSerialPath(cfg, ports)
        c2    == IF found.multiple
                 THEN Log(c1, "Multiple matching ports, using first") ELSE c1
    IN  IF found.path = Null \/ found.path = <<>>
        THEN SetReconnectTimer(Log(c2, "No serial device found"))
        ELSE LET c3 == LogWith(c2, "Opening serial port", found.path)
             IN  IF variant = "fsstream" /\ ~configured
                 THEN OnConfigureFailed(c3)
                 ELSE IF variant = "fsstream"
                      THEN Log(OpenHandle(c3, found.path), "Serial port opened")
                      ELSE OpenHandle(c3, found.path)

\* whether this connectScanner call creates a handle
OpensHandle(cfg, ports, configured) ==
    /\ findSerialPath(cfg, ports).path \notin {Null, <<>>}
    /\ variant = "fsstream" => configured

\* an object is garbage once it is closed, has emitted everything and the
\* module variable does not refer to it
Collect(c) ==
    [c EXCEPT !.handles =
        [h \in HandleIds |->
            IF c.handles[h].state = "closed" /\ c.handles[h].pend = {} /\ h # c.port
            THEN FreeHandle ELSE c.handles[h]]]

\* the connection manager's variables after a handler left them as c
SetConn(c) ==
    LET d == Collect(c)
    IN  /\ port' = d.port
        /\ reconnectTimer' = d.reconnectTimer
        /\ timers' = d.timers
        /\ handles' = d.handles

(***************************************************************************)
(* Delivery: HTTP POST with retries                                        *)
(***************************************************************************)

\* the strings new URL() takes; it throws a TypeError on any other
Urls == { <<"https://collector/scan">> }

IsUrl(endpoint) == endpoint \in Urls

\* JSON.stringify({ id, cardId, deviceName, timestamp })
Payload(scan, cfg) ==
    [id |-> scan.id, cardId |-> scan.data, deviceName |-> cfg.deviceName,
     timestamp |-> scan.timestamp]

\* a slip: the timestamp is taken when the request is written
sendToServerRestamps(d, attempt, cfg) ==
    [d EXCEPT !.attempt = attempt, !.st = "inflight", !.ended = FALSE,
              !.posts = Append(@, [Payload(d.scan, cfg) EXCEPT
                                      !.timestamp = @ + attempt - 1])]

\* sendToServer(scan, attempt): one POST goes out; st is the state of the
\* chain of attempts, posts the requests it has written so far, and ended
\* whether the response of its last request has ended while the request
\* object can still emit "error"
sendToServer(d, attempt, cfg) ==
    [d EXCEPT !.attempt = attempt, !.st = "inflight", !.ended = FALSE,
              !.posts = Append(@, Payload(d.scan, cfg))]

\* retry(scan, attempt): arms the sendRetryDelay timer or gives up
retry(d, attempt, cfg) ==
    IF attempt < cfg.sendRetries
    THEN [d EXCEPT !.st = "timer", !.retries = @ + 1]
    ELSE [d EXCEPT !.st = "gaveup"]

\* what retry logs
RetryLog(d, attempt, cfg) ==
    IF attempt < cfg.sendRetries
    THEN <<"Retrying POST", d.scan.data>>
    ELSE <<"Gave up sending", d.scan.data>>

\* res.statusCode >= 200 && res.statusCode < 300
IsSuccess(status) == status >= 200 /\ status < 300

\* the statuses a collector answers with
StatusCodes == {199, 200, 299, 300, 500}

(***************************************************************************)
(* The data handler of a serial handle                                     *)
(***************************************************************************)

CR == "\r"

LF == "\n"

\* the two bytes of the UTF-8 encoding of the no-break space U+00A0
ByteC2 == "0xC2"

ByteA0 == "0xA0"

Nbsp == "U+00A0"

\* U+FFFD, what the decoder puts for bytes that are no complete character
Replacement == "U+FFFD"

\* chunk.toString("utf8"): every call decodes its chunk alone; a byte below
\* 0x80 is its character
RECURSIVE ToStringUtf8(_)
ToStringUtf8(bytes) ==
    IF bytes = <<>> THEN <<>>
    ELSE IF Head(bytes) = ByteC2 /\ Len(bytes) >= 2 /\ bytes[2] = ByteA0
         THEN <<Nbsp>> \o ToStringUtf8(Tail(Tail(bytes)))
         ELSE IF Head(bytes) \in {ByteC2, ByteA0}
              THEN <<Replacement>> \o ToStringUtf8(Tail(bytes))
              ELSE <<Head(bytes)>> \o ToStringUtf8(Tail(bytes))

\* what trim() removes
WhiteSpace == {" ", "\t", CR, LF, Nbsp}

RECURSIVE TrimStart(_)
TrimStart(s) ==
    IF s # <<>> /\ Head(s) \in WhiteSpace THEN TrimStart(Tail(s)) ELSE s

RECURSIVE TrimEnd(_)
TrimEnd(s) ==
    IF s # <<>> /\ s[Len(s)] \in WhiteSpace
    THEN TrimEnd(SubSeq(s, 1, Len(s) - 1)) ELSE s

\* s.trim()
Trim(s) == TrimEnd(TrimStart(s))

\* a slip: the later of the two terminators is taken
CutIndexLatest(buf) ==
    LET idxR == IndexOf(buf, CR)
        idxN == IndexOf(buf, LF)
    IN  IF idxR = -1 THEN idxN ELSE IF idxN = -1 THEN idxR ELSE Max(idxR, idxN)

\* the place the handler cuts the buffer at, -1 when it holds no terminator
CutIndex(buf) ==
    LET idxR == IndexOf(buf, CR)
        idxN == IndexOf(buf, LF)
    IN  IF idxR = -1 THEN idxN ELSE IF idxN = -1 THEN idxR ELSE Min(idxR, idxN)

\* the while (true) loop: the buffer it leaves and the non-empty trimmed
\* lines it hands on, in order
RECURSIVE ExtractLines(_, _)
ExtractLines(buf, lines) ==
    LET idx == CutIndex(buf)
    IN  IF idx = -1 THEN [buf |-> buf, lines |-> lines]
        ELSE LET line == Trim(Slice(buf, 0, idx))
             IN  ExtractLines(SliceFrom(buf, idx + 1),
                              IF line = <<>> THEN lines ELSE Append(lines, line))

\* const scan = { id: crypto.randomUUID(), data: parsed, timestamp: ... }:
\* the n-th event of the run gets the n-th identifier and capture time
NewScan(n, cardId) == [id |-> n, data |-> cardId, timestamp |-> n]

\* the chains of one event carry the same scan object
RECURSIVE LastId(_)
LastId(ds) ==
    IF ds = <<>> THEN 0 ELSE Max(ds[Len(ds)].scan.id, LastId(SubSeq(ds, 1, Len(ds) - 1)))

\* crypto.randomUUID(): an id no event has
FreshId(ds) == LastId(ds) + 1

NewDelivery(scan) ==
    [scan |-> scan, attempt |-> 0, st |-> "new", posts |-> <<>>, retries |-> 0,
     ended |-> FALSE]

\* a slip: a line no parser takes is sent as it was read
HandleLineBestEffort(line, ds, lg, cfg) ==
    LET result == parseCardData(line)
        cardId == IF result # Null /\ result # <<>> THEN result ELSE line
    IN  [scans |-> Append(ds, sendToServer(
                       NewDelivery(NewScan(FreshId(ds), cardId)), 1, cfg)),
         logs  |-> Append(lg, <<"Card scanned", cardId>>),
         thrown |-> FALSE]

\* the body of the loop after a line is cut: parse, then send or warn;
\* thrown is whether sendToServer threw at new URL(config.endpoint)
HandleLine(line, ds, lg, cfg) ==
    LET result == parseCardData(line)
    IN  IF result # Null /\ result # <<>>
        THEN IF IsUrl(cfg.endpoint)
             THEN [scans |-> Append(ds, sendToServer(
                                 NewDelivery(NewScan(FreshId(ds), result)), 1, cfg)),
                   logs  |-> Append(lg, <<"Card scanned", result>>),
                   thrown |-> FALSE]
             ELSE [scans |-> ds,
                   logs  |-> Append(lg, <<"Card scanned", result>>),
                   thrown |-> TRUE]
        ELSE [scans |-> ds, logs |-> Append(lg, <<"Card parse failed", line>>),
              thrown |-> FALSE]

\* the loop body over the lines of one chunk, in order, up to a throw
RECURSIVE HandleLines(_, _, _, _)
HandleLines(lines, ds, lg, cfg) ==
    IF lines = <<>> THEN [scans |-> ds, logs |-> lg, thrown |-> FALSE]
    ELSE LET out == HandleLine(Head(lines), ds, lg, cfg)
         IN  IF out.thrown THEN out
             ELSE HandleLines(Tail(lines), out.scans, out.logs, cfg)

(***************************************************************************)
(* The inputs of a run                                                     *)
(***************************************************************************)

PinnedPath == <<"/dev/ttyS0">>

\* identifiers a configuration file or a USB descriptor holds
VendorIds == {<<>>, <<"0", "c", "2", "e">>, <<"0", "C", "2", "E">>, <<"1", "a", "8", "6">>}

ProductIds == {<<>>, <<"0", "b", "6", "1">>, <<"0", "B", "6", "2">>}

\* a field a descriptor lacks is null
DeviceId(id) == IF id = <<>> THEN Null ELSE id

\* every enumeration of at most MaxPorts devices
Enumerations ==
    UNION { { [i \in 1..n |-> [path |-> DevPath(i),
                               vendorId |-> DeviceId(ids[i][1]),
                               productId |-> DeviceId(ids[i][2])]] :
              ids \in [1..n -> VendorIds \X ProductIds] } : n \in 0..MaxPorts }

\* the reader is attached or it is not
ReaderStates ==
    { <<>>, <<[path |-> DevPath(1), vendorId |-> <<"0", "c", "2", "e">>,
               productId |-> <<"0", "b", "6", "1">>]>> }

CfgFile(exists, endpoint, deviceName, serialPath, vendorId, productId, sendRetries) ==
    [ exists |-> exists, endpoint |-> endpoint, deviceName |-> deviceName,
      serialPath |-> serialPath, vendorId |-> vendorId, productId |-> productId,
      sendRetries |-> sendRetries ]

Endpoint == <<"https://collector/scan">>

\* a non-empty endpoint that is no URL
BadEndpoint == <<"collector">>

DeviceName == <<"gateway-1">>

\* configuration files that differ in what delivery reads
SendCfgFiles ==
    { CfgFile(TRUE, Endpoint, DeviceName, <<>>, <<>>, <<>>, n) : n \in 0..MaxRetries }

\* configuration files that differ in what start-up reads
RunCfgFiles ==
    { CfgFile(TRUE, Endpoint, DeviceName, <<>>, <<>>, <<>>, MaxRetries),
           CfgFile(TRUE, BadEndpoint, DeviceName, <<>>, <<>>, <<>>, MaxRetries),
           CfgFile(FALSE, <<>>, <<>>, <<>>, <<>>, <<>>, 0),
           CfgFile(TRUE, <<>>, DeviceName, <<>>, <<>>, <<>>, 0),
           CfgFile(TRUE, Endpoint, <<>>, <<>>, <<>>, <<>>, 0) }

\* configuration files that differ in what discovery reads
FindCfgFiles ==
    { CfgFile(TRUE, Endpoint, DeviceName, sp, vid, pid, 0) :
        sp \in {<<>>, PinnedPath}, vid \in VendorIds, pid \in ProductIds }

\* the chunks a reader sends
\* whole lines only
LineChunks == { <<"7", LF>>, <<"x", CR, "7", LF>> }

\* lines no parser takes: 16 digits of another issuer, 10 digits, an issuer
\* field with nothing after its 9 characters
NoiseChunks ==
    { <<"1", "2", "3", "4", "5", "6", "7", "8", "9", "0", "1", "2", "3", "4", "5", "6", LF>>,
      <<"1", "2", "3", "4", "5", "6", "7", "8", "9", "0", LF>>,
      <<"6", "0", "1", "7", "7", "0", "0", "0", "0", "=", "1", LF>> }

\* a part of a line and a line
LinkChunks == { <<"x">>, <<"7", LF>> }

\* lines and parts of lines
Chunks == LineChunks \cup NoiseChunks \cup { <<"x">>, <<LF>>, <<"7", CR, LF>> }

InitWith(files, enumerations, versions) ==
    /\ variant \in {"serialport", "fsstream"}
    /\ cfgFile \in files
    /\ attached \in enumerations
    /\ proc = "boot"
    /\ exitCode = -1
    /\ config = NoConfig
    /\ port = 0
    /\ reconnectTimer = 0
    /\ timers = {}
    /\ handles = [h \in HandleIds |-> FreeHandle]
    /\ scans = <<>>
    /\ versionFile \in versions
    /\ firstFetch = FALSE
    /\ checking = 0
    /\ logs = <<>>
    /\ raw = <<>>
    /\ parsed = <<>>

Init == InitWith(RunCfgFiles, ReaderStates, {0, 1})

(***************************************************************************)
(* Actions: one per handler                                                *)
(***************************************************************************)

\* process.exit(code)
Exit(code) == proc' = "exited" /\ exitCode' = code

\* a slip: the first fetch starts whatever the marker holds
StartsFirstFetchAlways(localSha) == TRUE

\* if (!getLocalVersion()) of startUpdateLoop
StartsFirstFetch(localSha) == localSha = 0

\* the script body: loadConfig, connectScanner(), startUpdateLoop()
Start ==
    /\ proc = "boot"
    /\ IF ~ConfigValid(cfgFile)
       THEN /\ Exit(1)
            /\ logs' = <<(IF cfgFile.exists THEN <<"Missing required config field">>
                          ELSE <<"Config not found">>)>>
            /\ UNCHANGED <<config, port, reconnectTimer, timers, handles, firstFetch>>
       ELSE \E configured \in BOOLEAN :
            /\ variant = "serialport" => configured
            /\ config' = loadConfig(cfgFile)
            /\ LET c == connectScanner(Conn, config', attached, configured)
               IN  SetConn(c) /\ logs' = c.logs
            \* startUpdateLoop() is part of index.js only
            /\ firstFetch' = (variant = "serialport" /\ StartsFirstFetch(versionFile))
            /\ proc' = "running"
            /\ UNCHANGED exitCode
    /\ UNCHANGED <<variant, cfgFile, attached, scans, versionFile, checking, raw, parsed>>

\* the host's devices change
Replug ==
    /\ proc = "running"
    /\ attached' \in ReaderStates \ {attached}
    /\ UNCHANGED <<variant, cfgFile, proc, exitCode, config, port, reconnectTimer,
                   timers, handles, scans, versionFile, firstFetch, checking, logs,
                   raw, parsed>>

\* what no serial handler changes
ConnFrame ==
    UNCHANGED <<variant, cfgFile, attached, proc, exitCode, config, scans,
                versionFile, firstFetch, checking, raw, parsed>>

\* a pending reconnect timer fires: connectScanner()
ReconnectFire ==
    /\ proc = "running"
    /\ \E t \in timers, configured \in BOOLEAN :
        /\ variant = "serialport" => configured
        /\ OpensHandle(config, attached, configured)
               => \E h \in HandleIds : handles[h].state = "free"
        /\ LET fired == FireTimer(Conn, t)
               c     == connectScanner(fired, config, attached, configured)
           IN  SetConn(c) /\ logs' = c.logs
    /\ ConnFrame

\* the callback of port.open(cb)
OpenDone ==
    /\ proc = "running"
    /\ \E h \in HandleIds, ok \in BOOLEAN :
        /\ handles[h].state = "opening"
        /\ LET c == IF ok
                    THEN Log([Conn EXCEPT !.handles[h].state = "open"],
                             "Serial port opened")
                    ELSE scheduleReconnect(
                             Log([Conn EXCEPT !.handles[h].state = "closed"],
                                 "Failed to open serial port"))
           IN  SetConn(c) /\ logs' = c.logs
    /\ ConnFrame

\* what the "error" and "close" handlers of the two builds log
ErrorMsg == IF variant = "fsstream" THEN "Serial read error" ELSE "Serial port error"

CloseMsg ==
    IF variant = "fsstream" THEN "Serial port closed, reconnecting..."
    ELSE "Serial port closed"

\* port.on("error") of an open handle; an fs.ReadStream destroys itself
\* when it emits it
ErrorOn(h) ==
    /\ proc = "running"
    /\ handles[h].state = "open"
    /\ LET emitted == IF variant = "fsstream"
                      THEN [Conn EXCEPT !.handles = DestroyStream(@, h)]
                      ELSE Conn
           c == scheduleReconnect(Log(emitted, ErrorMsg))
       IN  SetConn(c) /\ logs' = c.logs
    /\ ConnFrame

ErrorEvent == \E h \in HandleIds : ErrorOn(h)

\* port.on("close") of an open handle that closes by itself (the device is
\* unplugged, the stream ends)
CloseOn(h) ==
    /\ proc = "running"
    /\ handles[h].state = "open"
    /\ LET closed == [Conn EXCEPT !.handles[h].state = "closed"]
           c == scheduleReconnect(Log(closed, CloseMsg))
       IN  SetConn(c) /\ logs' = c.logs
    /\ ConnFrame

CloseEvent == \E h \in HandleIds : CloseOn(h)

\* an event a close() or destroy() call queued is emitted
QueuedOn(h, ev) ==
    /\ proc = "running"
    /\ ev \in handles[h].pend
    /\ LET emitted == [Conn EXCEPT !.handles[h].pend = @ \ {ev}]
           c == scheduleReconnect(
                    Log(emitted, IF ev = "error" THEN ErrorMsg ELSE CloseMsg))
       IN  SetConn(c) /\ logs' = c.logs
    /\ ConnFrame

QueuedEvent == \E h \in HandleIds, ev \in {"error", "close"} : QueuedOn(h, ev)

\* port.on("data"): the whole handler for one chunk of bytes
DataHandler(h, chunk, maxScans) ==
    /\ proc = "running"
    /\ handles[h].state = "open"
    /\ LET cut == ExtractLines(handles[h].buf \o ToStringUtf8(chunk), <<>>)
           out == HandleLines(cut.lines, scans, <<>>, config)
       IN  /\ Len(cut.buf) <= MaxBuf
           /\ LastId(out.scans) <= maxScans
           /\ scans' = out.scans
           /\ IF out.thrown
              \* no handler catches it: the process dies of the exception
              THEN /\ logs' = Append(out.logs, <<"Uncaught exception">>)
                   /\ Exit(1)
                   /\ UNCHANGED handles
              ELSE /\ logs' = out.logs
                   /\ handles' = [handles EXCEPT ![h].buf = cut.buf]
                   /\ UNCHANGED <<proc, exitCode>>
    /\ UNCHANGED <<variant, cfgFile, attached, config, port,
                   reconnectTimer, timers, versionFile, firstFetch, checking>>

DataEvent(h, chunk, maxScans) ==
    DataHandler(h, chunk, maxScans) /\ UNCHANGED <<raw, parsed>>

Data(chunks, maxScans) ==
    \E h \in HandleIds, chunk \in chunks : DataEvent(h, chunk, maxScans)

\* what no delivery handler changes
SendFrame ==
    UNCHANGED <<variant, cfgFile, attached, proc, exitCode, config, port,
                reconnectTimer, timers, handles, versionFile, firstFetch, checking,
                raw, parsed>>

\* res.on("end") of the request in flight for delivery i
ResponseEndWith(i, status) ==
    /\ proc = "running"
    /\ i \in 1..Len(scans)
    /\ scans[i].st = "inflight"
    /\ IF IsSuccess(status)
       THEN /\ scans' = [scans EXCEPT ![i].st = "ok", ![i].ended = TRUE]
            /\ logs' = << <<"POST OK", scans[i].scan.data>> >>
       ELSE /\ scans' = [scans EXCEPT
                            ![i] = [retry(@, @.attempt, config) EXCEPT !.ended = TRUE]]
            /\ logs' = << <<"POST failed", scans[i].scan.data>>,
                          RetryLog(scans[i], scans[i].attempt, config) >>
    /\ SendFrame

ResponseEnd ==
    \E i \in 1..Len(scans), status \in StatusCodes : ResponseEndWith(i, status)

\* req.on("error") of the request in flight for delivery i
RequestErrorOn(i) ==
    /\ proc = "running"
    /\ i \in 1..Len(scans)
    /\ scans[i].st = "inflight"
    /\ scans' = [scans EXCEPT ![i] = retry(@, @.attempt, config)]
    /\ logs' = << <<"POST error", scans[i].scan.data>>,
                  RetryLog(scans[i], scans[i].attempt, config) >>
    /\ SendFrame

RequestError == \E i \in 1..Len(scans) : RequestErrorOn(i)

\* the timer a second call of retry for one request arms is one more chain
\* of attempts for the same scan object
SecondChain(d) == [d EXCEPT !.posts = <<>>, !.retries = 0, !.ended = FALSE]

\* req.on("error") of a request whose response has already ended (the
\* connection breaks while the socket is being released): nothing in
\* sendToServer remembers that res.on("end") has run, so the handler logs
\* and calls retry(scan, attempt) like the first time
RequestErrorAfterEndOn(i) ==
    /\ proc = "running"
    /\ i \in 1..Len(scans)
    /\ scans[i].ended
    /\ Len(scans) - LastId(scans) < MaxLateErrors
    /\ scans' = Append([scans EXCEPT ![i].ended = FALSE],
                       retry(SecondChain(scans[i]), scans[i].attempt, config))
    /\ logs' = << <<"POST error", scans[i].scan.data>>,
                  RetryLog(scans[i], scans[i].attempt, config) >>
    /\ SendFrame

RequestErrorAfterEnd == \E i \in 1..Len(scans) : RequestErrorAfterEndOn(i)

\* a slip: one timer variable for every event, so that arming it for one
\* event had cancelled the timers of the others
RetryFireShared(i) ==
    /\ proc = "running"
    /\ i \in 1..Len(scans)
    /\ scans[i].st = "timer"
    /\ scans' = [j \in 1..Len(scans) |->
                    IF j = i THEN sendToServer(scans[j], scans[j].attempt + 1, config)
                    ELSE IF scans[j].st = "timer"
                         THEN [scans[j] EXCEPT !.st = "gaveup"]
                         ELSE scans[j]]
    /\ logs' = <<>>
    /\ SendFrame

\* the sendRetryDelay timer of delivery i fires: sendToServer(scan, attempt + 1)
RetryFireOn(i) ==
    /\ proc = "running"
    /\ i \in 1..Len(scans)
    /\ scans[i].st = "timer"
    /\ scans' = [scans EXCEPT ![i] = sendToServer(@, @.attempt + 1, config)]
    /\ logs' = <<>>
    /\ SendFrame

RetryFire == \E i \in 1..Len(scans) : RetryFireOn(i)

(***************************************************************************)
(* Background auto-updater (index.js)                                      *)
(***************************************************************************)

\* what fetchRemoteVersion resolves to: 0 for null or an empty body
RemoteVersions == 0..MaxVersion

UpdateFrame ==
    UNCHANGED <<variant, cfgFile, attached, config, port, reconnectTimer, timers,
                handles, scans, raw, parsed>>

\* the then() of the fetch startUpdateLoop started
FirstFetchDone ==
    /\ proc = "running"
    /\ firstFetch
    /\ \E sha \in RemoteVersions :
        /\ firstFetch' = FALSE
        /\ IF sha # 0
           THEN versionFile' = sha /\ logs' = << <<"Version recorded", sha>> >>
           ELSE versionFile' = versionFile /\ logs' = <<>>
    /\ UNCHANGED <<proc, exitCode, checking>>
    /\ UpdateFrame

\* setInterval(checkForUpdates, UPDATE_INTERVAL) ticks: the fetch starts
UpdateTick ==
    /\ proc = "running"
    /\ variant = "serialport"
    /\ checking < MaxChecks
    /\ checking' = checking + 1
    /\ logs' = <<>>
    /\ UNCHANGED <<proc, exitCode, versionFile, firstFetch>>
    /\ UpdateFrame

\* a slip: the marker is written whatever applyUpdate() returned
MarkerAfterAnyOutcome(applied, remoteSha, localSha) == remoteSha

\* if (applyUpdate()) fs.writeFileSync(VERSION_FILE, remoteSha)
MarkerAfter(applied, remoteSha, localSha) ==
    IF applied THEN remoteSha ELSE localSha

\* a slip: the markers are not compared
NeedsUpdateUncompared(remoteSha, localSha) == remoteSha # 0

\* neither of the two early returns of checkForUpdates is taken
NeedsUpdate(remoteSha, localSha) == remoteSha # 0 /\ remoteSha # localSha

\* checkForUpdates after its await, for what the fetch resolved to and what
\* applyUpdate() returns if it is called
CheckFetchedWith(remoteSha, applied) ==
    /\ proc = "running"
    /\ checking > 0
    /\ checking' = checking - 1
    /\ IF ~NeedsUpdate(remoteSha, versionFile)
       THEN /\ logs' = <<>>
            /\ UNCHANGED <<proc, exitCode, versionFile>>
       ELSE /\ versionFile' = MarkerAfter(applied, remoteSha, versionFile)
            /\ IF applied
               THEN /\ logs' = << <<"Update available", remoteSha>>,
                                  <<"Update applied, restarting...">> >>
                    /\ Exit(0)
               ELSE /\ logs' = << <<"Update available", remoteSha>>,
                                  <<"Update failed">> >>
                    /\ UNCHANGED <<proc, exitCode>>
    /\ UNCHANGED firstFetch
    /\ UpdateFrame

CheckFetched ==
    \E remoteSha \in RemoteVersions, applied \in BOOLEAN :
        CheckFetchedWith(remoteSha, applied)

(***************************************************************************)
(* Graceful shutdown                                                       *)
(***************************************************************************)

\* shutdown(signal): SIGINT or SIGTERM
shutdown(c) ==
    LET c1 == ClearReconnectTimer(c)
    IN  IF c1.port # 0
        THEN [c1 EXCEPT !.handles = Teardown(c1.handles, c1.port)]
        ELSE c1

\* a slip: the handler returns and the process lives on
ShutdownReturns == UNCHANGED <<proc, exitCode>>

\* how a handler that ends the process leaves it
ShutdownExit == Exit(0)

Shutdown ==
    /\ proc = "running"
    /\ LET c == shutdown(Log(Conn, "Received signal, shutting down..."))
       IN  /\ port' = c.port
           /\ reconnectTimer' = c.reconnectTimer
           /\ timers' = c.timers
           /\ handles' = c.handles
           /\ logs' = c.logs
    /\ ShutdownExit
    /\ UNCHANGED <<variant, cfgFile, attached, config, scans, versionFile,
                   firstFetch, checking, raw, parsed>>

Next ==
    \/ Start
    \/ Replug
    \/ ReconnectFire
    \/ OpenDone
    \/ ErrorEvent
    \/ CloseEvent
    \/ QueuedEvent
    \/ Data(LineChunks, MaxScansAll)
    \/ ResponseEnd
    \/ RequestError
    \/ RequestErrorAfterEnd
    \/ RetryFire
    \/ FirstFetchDone
    \/ UpdateTick
    \/ CheckFetched
    \/ Shutdown

Spec == Init /\ [][Next]_vars

(***************************************************************************)
(* Discovery on its own: every configuration of the filter against every   *)
(* enumeration, which stays as it is during the run.                       *)
(***************************************************************************)

InitFind == InitWith(FindCfgFiles, Enumerations, {1})

NextFind ==
    \/ Start
    \/ ReconnectFire

SpecFind == InitFind /\ [][NextFind]_vars

(***************************************************************************)
(* The data handler with the deliveries it starts: the reader stays        *)
(* attached and its handle has no faults, every request ends once.         *)
(***************************************************************************)

InitSend == InitWith(SendCfgFiles, {r \in ReaderStates : r # <<>>}, {1})

NextSend ==
    \/ Start
    \/ OpenDone
    \/ ReconnectFire
    \/ Data(Chunks, MaxScans)
    \/ ResponseEnd
    \/ RequestError
    \/ RetryFire
    \/ Shutdown

SpecSend == InitSend /\ [][NextSend]_vars

(***************************************************************************)
(* Deliveries on their own: events of whole lines, with every outcome of   *)
(* a request, so that every chain of attempts can be followed.             *)
(***************************************************************************)

NextRetry ==
    \/ Start
    \/ OpenDone
    \/ ReconnectFire
    \/ Data(LineChunks, MaxScans)
    \/ ResponseEnd
    \/ RequestError
    \/ RequestErrorAfterEnd
    \/ RetryFire
    \/ Shutdown

SpecRetry == InitSend /\ [][NextRetry]_vars

\* The event loop runs a timer that is due, and every request is answered or
\* fails: none hangs for ever.
SpecRetryFair ==
    /\ SpecRetry
    /\ WF_vars(RetryFire)
    /\ WF_vars(ResponseEnd \/ RequestError)

(***************************************************************************)
(* The connection on its own: a reader that sends parts of lines over      *)
(* handles that fail, close and are replaced.                              *)
(***************************************************************************)

LinkCfgFiles == { CfgFile(TRUE, Endpoint, DeviceName, <<>>, <<>>, <<>>, 0) }

InitLink == InitWith(LinkCfgFiles, {r \in ReaderStates : r # <<>>}, {1})

NextLink ==
    \/ Start
    \/ ReconnectFire
    \/ OpenDone
    \/ ErrorEvent
    \/ CloseEvent
    \/ QueuedEvent
    \/ Data(LinkChunks, MaxScansAll)

SpecLink == InitLink /\ [][NextLink]_vars

(***************************************************************************)
(* One byte sequence delivered in chunks: raw holds the bytes the device   *)
(* sends and how many it has sent, parsed the lines handed to the parser.  *)
(***************************************************************************)

\* longest byte sequence split into chunks
MaxSplit == 4

SplitBytes == {"7", CR, LF, ByteC2, ByteA0}

SplitInputs == UNION { [1..n -> SplitBytes] : n \in 1..MaxSplit }

InitSplit ==
    /\ variant \in {"serialport", "fsstream"}
    /\ cfgFile = CfgFile(TRUE, Endpoint, DeviceName, <<>>, <<>>, <<>>, 0)
    /\ attached \in {r \in ReaderStates : Len(r) = 1}
    /\ proc = "boot"
    /\ exitCode = -1
    /\ config = NoConfig
    /\ port = 0
    /\ reconnectTimer = 0
    /\ timers = {}
    /\ handles = [h \in HandleIds |-> FreeHandle]
    /\ scans = <<>>
    /\ versionFile = 1
    /\ firstFetch = FALSE
    /\ checking = 0
    /\ logs = <<>>
    /\ raw \in { [bytes |-> b, sent |-> 0] : b \in SplitInputs }
    /\ parsed = <<>>

\* the next n bytes arrive as one chunk
ReceiveSplit ==
    \E h \in HandleIds, n \in 1..(Len(raw.bytes) - raw.sent) :
        LET chunk == SubSeq(raw.bytes, raw.sent + 1, raw.sent + n)
        IN  /\ DataHandler(h, chunk, MaxSplit)
            /\ raw' = [raw EXCEPT !.sent = @ + n]
            /\ parsed' = parsed \o ExtractLines(handles[h].buf \o ToStringUtf8(chunk),
                                                 <<>>).lines

NextSplit ==
    \/ Start
    \/ OpenDone
    \/ ReceiveSplit

SpecSplit == InitSplit /\ [][NextSplit]_vars

(***************************************************************************)
(* The card parser on its own                                              *)
(***************************************************************************)

\* longest string of digits tried
MaxDigits == 10

\* longest tail tried after the issuer prefix
MaxTail == 11

\* longest body tried in a delimited field
MaxBody == 10

\* longest string of mixed characters tried
MaxNoise == 3

StrsUpTo(alphabet, lo, hi) == UNION { [1..n -> alphabet] : n \in lo..hi }

Str1570 == <<"1", "5", "7", "0">>

\* the lines of the README and of the header of parsers.js
ExampleLines ==
    { <<"1", "1", "1", "1", "1", "1">>,
      IssuerPrefix \o <<"0", "0", "1", "0", "0", "0", "1", "1", "1", "1">>,
      Str1570 \o <<"=", "9", "0", "0", "0", "0", "0", "0", "0", "1", "=", "0", "0", "=">>
          \o IssuerPrefix \o <<"0", "0", "0", "1", "1", "1", "1", "1", "1", "0">>,
      Str1570 \o <<"=", "9", "0", "3", "9", "7", "6", "3", "0", "5", "=", "0", "0", "=">>
          \o IssuerPrefix \o <<"0", "0", "0", "7", "8", "8", "9", "9", "7", "0">> }

DigitLines == StrsUpTo({"0", "7"}, 1, MaxDigits)

PrefixedLines == { IssuerPrefix \o t : t \in StrsUpTo({"0", "1"}, 0, MaxTail) }

NoiseLines ==
    { s \in StrsUpTo({"7", "x", "=", " "}, 1, MaxNoise) : Trim(s) = s }

\* a field: the prefix, three more characters, a body and a check character
Fields ==
    { IssuerPrefix \o mid \o body \o check :
        mid \in {<<"0", "0", "0">>, <<"x", "0", "1">>},
        body \in StrsUpTo({"0", "1"}, 0, MaxBody) \cup StrsUpTo({"1", "x"}, 1, 2),
        check \in {<<"0">>, <<"x">>} }
    \cup { IssuerPrefix \o t : t \in StrsUpTo({"0"}, 0, 3) }

\* what precedes and follows the field on a delimited line
FieldsBefore == { <<>>, Str1570 \o <<"=">>, IssuerPrefix \o <<"=">> }

FieldsAfter ==
    { <<>>, <<"=", "0", "0">>,
      <<"=">> \o IssuerPrefix \o <<"0", "0", "0", "5", "0">> }

DelimitedLines ==
    { pre \o f \o post : pre \in FieldsBefore, f \in Fields, post \in FieldsAfter }

ParseInputs ==
    ExampleLines \cup DigitLines \cup PrefixedLines \cup NoiseLines \cup DelimitedLines

InitParse ==
    /\ variant = "serialport"
    /\ cfgFile = CfgFile(TRUE, Endpoint, DeviceName, <<>>, <<>>, <<>>, 0)
    /\ attached = <<>>
    /\ proc = "boot"
    /\ exitCode = -1
    /\ config = NoConfig
    /\ port = 0
    /\ reconnectTimer = 0
    /\ timers = {}
    /\ handles = [h \in HandleIds |-> FreeHandle]
    /\ scans = <<>>
    /\ versionFile = 0
    /\ firstFetch = FALSE
    /\ checking = 0
    /\ logs = <<>>
    /\ raw \in ParseInputs
    /\ parsed = <<>>

\* parseCardData(raw)
ParseLine ==
    /\ raw # <<>>
    /\ parsed = <<>>
    /\ parsed' = parseCardData(raw)
    /\ UNCHANGED <<variant, cfgFile, attached, proc, exitCode, config, port,
                   reconnectTimer, timers, handles, scans, versionFile, firstFetch,
                   checking, logs, raw>>

NextParse == ParseLine

SpecParse == InitParse /\ [][NextParse]_vars

(***************************************************************************)
(* Properties of the card parser (SpecParse)                               *)
(***************************************************************************)

\* parseCardData has run and returned a card identifier
Returned == parsed # <<>> /\ parsed # Null

AllDecimal(s) == \A i \in 1..Len(s) : s[i] \in DecimalDigits

\* s is t with zeros added on the left up to 9 characters
ZeroPaddedTo9(s, t) ==
    /\ Len(s) = Max(9, Len(t))
    /\ \A i \in 1..(Len(s) - Len(t)) : s[i] = "0"
    /\ \A i \in 1..Len(t) : s[Len(s) - Len(t) + i] = t[i]

\* the two canonical shapes of a card identifier
CanonicalShape(c) ==
    \/ Len(c) = 9 /\ AllDecimal(c)
    \/ /\ Len(c) = 16
       /\ AllDecimal(c)
       /\ \A i \in 1..6 : c[i] = IssuerPrefix[i]

\* C6: every card identifier the normalizer returns is exactly 9 decimal
\* digits, or exactly 16 decimal digits beginning with 601770.
C6_IdentifierShape == Returned => CanonicalShape(parsed)

FieldEnd(s, a) ==
    IF \E b \in a..Len(s) : s[b] = "="
    THEN (CHOOSE b \in a..Len(s) : s[b] = "=" /\ \A k \in a..(b - 1) : s[k] # "=") - 1
    ELSE Len(s)

\* a field starts at place a of s, and it begins with 601770
PrefixedFieldAt(s, a) ==
    /\ a = 1 \/ s[a - 1] = "="
    /\ a + 5 <= FieldEnd(s, a)
    /\ \A i \in 1..6 : s[a + i - 1] = IssuerPrefix[i]

HasPrefixedField(s) == \E a \in 1..Len(s) : PrefixedFieldAt(s, a)

\* the first field beginning with 601770 without its first 9 characters and
\* its last one
Remainder(s) ==
    LET a == CHOOSE x \in 1..Len(s) :
                 PrefixedFieldAt(s, x) /\ \A y \in 1..(x - 1) : ~PrefixedFieldAt(s, y)
        b == FieldEnd(s, a)
    IN  IF b - 1 < a + 9 THEN <<>> ELSE [i \in 1..(b - a - 9) |-> s[a + 8 + i]]

\* the delimited form of the specification
DelimitedForm(s) ==
    /\ \E i \in 1..Len(s) : s[i] = "="
    /\ HasPrefixedField(s)
    /\ Remainder(s) # <<>>
    /\ AllDecimal(Remainder(s))

\* C8: a line with the separator whose first field beginning with 601770 has
\* a non-empty all-decimal remainder is returned as that remainder,
\* left-padded with zeros to 9 characters.
C8_DelimitedRemainder ==
    (parsed # <<>> /\ DelimitedForm(raw)) => ZeroPaddedTo9(parsed, Remainder(raw))

C8_Witness ==
    /\ raw = Str1570 \o <<"=", "9", "0", "0", "0", "0", "0", "0", "0", "1", "=", "0", "0", "=">>
                 \o IssuerPrefix \o <<"0", "0", "0", "1", "1", "1", "1", "1", "1", "0">>
    /\ parsed = <<"0", "0", "0", "1", "1", "1", "1", "1", "1">>

\* the long numeric form of the specification
LongNumericForm(s) ==
    /\ Len(s) = 16
    /\ AllDecimal(s)
    /\ \A i \in 1..6 : s[i] = IssuerPrefix[i]

\* C9: a string of exactly 16 decimal digits beginning with 601770 is
\* returned unchanged.
C9_MobileUnchanged == (parsed # <<>> /\ LongNumericForm(raw)) => parsed = raw

C9_Witness ==
    /\ raw = IssuerPrefix \o <<"0", "0", "1", "0", "0", "0", "1", "1", "1", "1">>
    /\ parsed = raw

(***************************************************************************)
(* Properties of discovery (SpecFind)                                      *)
(***************************************************************************)

\* no path is pinned and a vendor or product filter is configured
Filtered ==
    /\ proc = "running"
    /\ config.serialPath = Null
    /\ config.vendorId # Null \/ config.productId # Null

SameIgnoringCase(a, b) ==
    /\ Len(a) = Len(b)
    /\ \A i \in 1..Len(a) : LowerChar(a[i]) = LowerChar(b[i])

\* the device has every identifier the filter configures
MatchesFilter(d) ==
    /\ config.vendorId # Null
         => (d.vendorId # Null /\ SameIgnoringCase(d.vendorId, config.vendorId))
    /\ config.productId # Null
         => (d.productId # Null /\ SameIgnoringCase(d.productId, config.productId))

MatchingPlaces == { i \in 1..Len(attached) : MatchesFilter(attached[i]) }

\* the last connectScanner call logged msg
Logged(msg) == \E i \in 1..Len(logs) : logs[i][1] = msg

\* the path the last connectScanner call got from findSerialPath, if any
ReturnedPaths ==
    { logs[i][2] : i \in { j \in 1..Len(logs) : logs[j][1] = "Opening serial port" } }

\* the connection is Disconnected with its back-off timer armed
BackedOff == port = 0 /\ Cardinality(timers) = 1 /\ reconnectTimer \in timers

FirstPlace(S) == CHOOSE i \in S : \A j \in S : i <= j

\* C5: when two or more enumerated devices match the filter, discovery
\* returns the first of them in enumeration order, logs the ambiguity, and
\* neither fails nor backs off because of it.
C5_FirstMatchWins ==
    (Filtered /\ Cardinality(MatchingPlaces) >= 2) =>
        /\ ReturnedPaths = {attached[FirstPlace(MatchingPlaces)].path}
        /\ Logged("Multiple matching ports, using first")
        /\ ~Logged("No serial device found")
        /\ \/ port # 0 /\ timers = {} /\ handles[port].path \in ReturnedPaths
           \/ Logged("Failed to configure serial port")

C5_Witness ==
    /\ Filtered
    /\ Cardinality(MatchingPlaces) = 2
    /\ attached[1].vendorId # attached[2].vendorId
    /\ Logged("Multiple matching ports, using first")
    /\ port # 0
    /\ handles[port].path = attached[1].path

(***************************************************************************)
(* Properties of delivery (SpecRetryFair)                                  *)
(***************************************************************************)

Deliveries == 1..Len(scans)

\* the attempts made by chain i so far
Attempts(i) == Len(scans[i].posts)

\* the events created so far, by id
Events == { scans[i].scan.id : i \in Deliveries }

\* the chains of attempts that carry event e among the chains ds
ChainsIn(ds, e) == { i \in 1..Len(ds) : ds[i].scan.id = e }

ChainsOf(e) == ChainsIn(scans, e)

\* the POST requests written for event e by the first n chains of ds
RECURSIVE PostsUpTo(_, _, _)
PostsUpTo(ds, e, n) ==
    IF n = 0 THEN 0
    ELSE PostsUpTo(ds, e, n - 1)
            + (IF ds[n].scan.id = e THEN Len(ds[n].posts) ELSE 0)

PostsIn(ds, e) == PostsUpTo(ds, e, Len(ds))

EventAttempts(e) == PostsIn(scans, e)

\* the chains of event e that wait for their retry timer
WaitingIn(ds, e) == { i \in ChainsIn(ds, e) : ds[i].st = "timer" }

\* the give-up was logged for event e
GaveUp(e) == \E i \in ChainsOf(e) : scans[i].st = "gaveup"

\* every event got at least one and at most sendRetries attempts, and one
\* that was given up got exactly sendRetries and has nothing pending
AttemptsCounted ==
    \A e \in Events :
        /\ EventAttempts(e) >= 1
        /\ EventAttempts(e) <= config.sendRetries
        /\ GaveUp(e) =>
              /\ EventAttempts(e) = config.sendRetries
              /\ \A i \in ChainsOf(e) : scans[i].st \notin {"timer", "inflight"}

\* a step makes a further attempt only from the armed timer, arms a timer
\* only by the failure of the attempt in flight, logs the give-up, and makes
\* or arms nothing for an event that was given up
AttemptsStep ==
    /\ \A i \in Deliveries :
        /\ (Len(scans') >= i /\ Len(scans'[i].posts) > Attempts(i))
             => (scans[i].st = "timer" /\ Len(scans'[i].posts) = Attempts(i) + 1)
        /\ (Len(scans') >= i /\ scans'[i].st = "timer" /\ scans[i].st # "timer")
             => (scans[i].st = "inflight"
                   /\ \E k \in 1..Len(logs') : logs'[k][1] \in {"POST failed", "POST error"})
        /\ (Len(scans') >= i /\ scans'[i].st = "gaveup" /\ scans[i].st # "gaveup")
             => (scans[i].st = "inflight"
                   /\ \E k \in 1..Len(logs') : logs'[k][1] = "Gave up sending")
    /\ \A i \in (1..Len(scans')) \ Deliveries : scans'[i].st = "inflight"
    /\ \A e \in Events :
          GaveUp(e) => (PostsIn(scans', e) = EventAttempts(e)
                          /\ WaitingIn(scans', e) = {})

\* chain i has ended, or the process has
Settled(i) ==
    \/ proc = "exited"
    \/ Len(scans) >= i /\ scans[i].st \in {"ok", "gaveup"}

\* C1: an event whose attempts all fail gets exactly sendRetries POST
\* attempts, each later one started only by the retry timer the failure before
\* it armed; then the give-up is logged and nothing more happens for it.
C1_ExactlyNAttempts ==
    /\ []AttemptsCounted
    /\ [][AttemptsStep]_vars
    /\ \A i \in 1..(MaxScans + MaxLateErrors) : (Len(scans) >= i) ~> Settled(i)

(***************************************************************************)
(* Properties of the connection (Spec)                                     *)
(***************************************************************************)

\* the connection is Open on handle h
OpenOn(h) == port = h /\ handles[h].state = "open"

\* handle h is torn down and the connection waits on one timer
DisconnectedFrom(h) ==
    /\ port' = 0
    /\ handles'[h].state \in {"closed", "free"}
    /\ Cardinality(timers') = 1
    /\ reconnectTimer' \in timers'

\* C2: an error or a close of the handle the connection is Open on leaves
\* the connection Disconnected, the handle torn down and exactly one
\* reconnect timer pending; whatever events follow one another, there is
\* never more than one reconnect timer pending.
C2_SingleReconnectTimer ==
    /\ [](Cardinality(timers) <= 1 /\ (timers # {} => reconnectTimer \in timers))
    /\ [][\A h \in HandleIds :
            (OpenOn(h) /\ (ErrorOn(h) \/ CloseOn(h))) => DisconnectedFrom(h)]_vars

\* the stream closed under an Open connection, which now waits on one timer
C2_Witness ==
    /\ port = 0
    /\ Cardinality(timers) = 1
    /\ Logged("Serial port closed, reconnecting...")
    /\ \A h \in HandleIds : handles[h].state = "free"

(***************************************************************************)
(* Properties of shutdown (Spec)                                           *)
(***************************************************************************)

\* the step ran the signal handler
SignalHandled ==
    \E k \in 1..Len(logs') : logs'[k][1] = "Received signal, shutting down..."

\* no handle is created, opened or read, no request or retry timer is
\* started, no reconnect timer is armed and no update check starts or ends
NothingStarts ==
    /\ UNCHANGED <<port, handles, scans, versionFile, firstFetch>>
    /\ timers' \subseteq timers
    /\ checking' <= checking

\* C3: once the signal handler has run, no serial open, no delivery attempt,
\* no retry timer and no update check is started or scheduled, whatever was
\* pending when the signal arrived.
C3_NothingAfterShutdown ==
    /\ [][SignalHandled => (proc' = "exited" /\ exitCode' = 0 /\ timers' = {})]_vars
    /\ [][proc = "exited" => NothingStarts]_vars

\* the signal arrived with a retry timer, an update check and a queued handle
\* event pending
C3_Witness ==
    /\ proc = "exited"
    /\ exitCode = 0
    /\ Logged("Received signal, shutting down...")
    /\ Len(scans) = 1
    /\ scans[1].st = "timer"
    /\ checking > 0
    /\ \E h \in HandleIds : handles[h].pend # {}

(***************************************************************************)
(* Properties of the data handler (SpecSend)                               *)
(***************************************************************************)

\* the short numeric form of the specification
ShortNumericForm(s) == Len(s) \in 1..9 /\ AllDecimal(s)

\* the line has none of the three forms
NoForm(s) == ~DelimitedForm(s) /\ ~LongNumericForm(s) /\ ~ShortNumericForm(s)

\* the non-empty lines the chunk completes on handle h, in order
LinesCut(h, chunk) == ExtractLines(handles[h].buf \o chunk, <<>>).lines

RECURSIVE WithForm(_)
WithForm(lines) ==
    IF lines = <<>> THEN <<>>
    ELSE IF NoForm(Head(lines)) THEN WithForm(Tail(lines))
         ELSE <<Head(lines)>> \o WithForm(Tail(lines))

\* what the handler of one chunk leaves: the lines of no form gave nothing
\* but a warning, each line with a form gave one event, in order, and the
\* connection is as it was
NoiseDiscarded(h, chunk) ==
    LET lines == LinesCut(h, chunk)
        taken == WithForm(lines)
    IN  /\ \A k \in 1..Len(lines) :
             NoForm(lines[k]) =>
                 /\ parseCardData(lines[k]) = Null
                 /\ \E j \in 1..Len(logs') :
                        logs'[j] = <<"Card parse failed", lines[k]>>
        /\ Len(scans') = Len(scans) + Len(taken)
        /\ \A i \in 1..Len(scans) : scans'[i] = scans[i]
        /\ \A k \in 1..Len(taken) :
             /\ scans'[Len(scans) + k].scan.data = parseCardData(taken[k])
             /\ Len(scans'[Len(scans) + k].posts) = 1
        /\ UNCHANGED <<port, timers, reconnectTimer, proc>>
        /\ handles'[h].state = "open"

\* C10: a non-empty line of none of the three forms gets no identifier, no
\* event, no delivery attempt and no retry; the connection stays Open and
\* the lines after it are processed.
C10_NoiseDiscarded ==
    [][\A h \in HandleIds, chunk \in Chunks :
          DataEvent(h, chunk, MaxScans) => NoiseDiscarded(h, chunk)]_vars

\* a line of letters was dropped and the line after it became an event
C10_Witness ==
    /\ port # 0
    /\ handles[port].state = "open"
    /\ Len(logs) = 2
    /\ logs[1][1] = "Card parse failed"
    /\ NoForm(logs[1][2])
    /\ logs[2] = <<"Card scanned", <<"0", "0", "0", "0", "0", "0", "0", "0", "7">>>>
    /\ Len(scans) >= 1
    /\ scans[Len(scans)].st = "inflight"

(***************************************************************************)
(* Properties of the updater (Spec)                                        *)
(***************************************************************************)

\* the step replaced the source files: only applyUpdate() returning true
\* is followed by this log line
Replaced == \E k \in 1..Len(logs') : logs'[k][1] = "Update applied, restarting..."

\* C11 as the specification states it: the version marker is written only
\* after the source files were replaced in the same run, never at start-up.
C11_MarkerOnlyAfterUpdate ==
    [][versionFile' # versionFile => Replaced]_vars

\* the step is the first-run recording of startUpdateLoop: no marker was
\* there, and the fetched one is written without any replacement
FirstRunRecording ==
    /\ versionFile = 0
    /\ firstFetch /\ ~firstFetch'
    /\ logs' = << <<"Version recorded", versionFile'>> >>
    /\ UNCHANGED <<proc, checking>>

\* C11, amended: the version marker is written either after the source files
\* were replaced by the same tick, or once after a start-up that found no
\* marker, when the fetched remote marker is recorded without a replacement.
C11_MarkerAfterUpdateOrFirstRun ==
    [][versionFile' # versionFile => (Replaced \/ FirstRunRecording)]_vars

\* a first run recorded the remote marker and no file was replaced
C11_Witness ==
    /\ proc = "running"
    /\ versionFile = 2
    /\ logs = << <<"Version recorded", 2>> >>

SuccessCodes == { status \in StatusCodes : status \in 200..299 }

\* C13: an attempt answered with a status from 200 to 299 ends the
\* delivery of its event: no retry timer is armed and no further POST is
\* made for it, whichever attempt it was.
C13_SuccessEndsDelivery ==
    /\ [][\A i \in Deliveries, status \in SuccessCodes :
            ResponseEndWith(i, status)
            => /\ scans'[i].st = "ok"
               /\ scans'[i].posts = scans[i].posts
               /\ scans'[i].retries = scans[i].retries
               /\ logs' = << <<"POST OK", scans[i].scan.data>> >>]_vars
    /\ [][\A i \in Deliveries :
            scans[i].st = "ok"
            => LET e == scans[i].scan.id
               IN  /\ PostsIn(scans', e) = EventAttempts(e)
                   /\ WaitingIn(scans', e) \subseteq WaitingIn(scans, e)]_vars

(***************************************************************************)
(* Properties of termination (Spec)                                        *)
(***************************************************************************)

\* the file is missing, or holds no endpoint or no device name
MissingRequired ==
    \/ ~cfgFile.exists
    \/ cfgFile.endpoint = <<>>
    \/ cfgFile.deviceName = <<>>

\* C14: the process ends only by the configuration check at boot, by the
\* signal handler or by its exit after a successful update; no missing
\* device, serial failure, delivery failure, failed fetch or malformed line
\* ends it.
C14_OnlyThreeExits ==
    proc = "exited" =>
        \/ exitCode = 1 /\ MissingRequired
        \/ exitCode = 0 /\ Logged("Received signal, shutting down...")
        \/ exitCode = 0 /\ Logged("Update applied, restarting...")

(***************************************************************************)
(* Properties of the boot check (Spec)                                     *)
(***************************************************************************)

\* C15: with the configuration file missing or a required field absent or
\* empty, the process exits with a failure status before anything starts:
\* no serial open, no timer, no request and no update check in that run.
C15_BootCheckFirst ==
    MissingRequired =>
        /\ proc = "boot" \/ (proc = "exited" /\ exitCode = 1)
        /\ config = NoConfig
        /\ port = 0
        /\ timers = {}
        /\ \A h \in HandleIds : handles[h].state = "free"
        /\ scans = <<>>
        /\ ~firstFetch
        /\ checking = 0

C15_Witness ==
    /\ proc = "exited"
    /\ exitCode = 1
    /\ cfgFile.exists
    /\ cfgFile.endpoint = <<>>
    /\ cfgFile.deviceName # <<>>
    /\ logs = << <<"Missing required config field">> >>

(***************************************************************************)
(* Properties of recovery (Spec)                                           *)
(***************************************************************************)

\* what the connection manager logs when an attempt or a connection fails
FailureMsgs ==
    { "No serial device found", "Failed to configure serial port",
      "Failed to open serial port", "Serial port error", "Serial read error",
      "Serial port closed", "Serial port closed, reconnecting..." }

\* the step handled a discovery, configuration, open or read failure or a close
FailureHandled == \E k \in 1..Len(logs') : logs'[k][1] \in FailureMsgs

\* the handle variable names a handle that is opening or open
Connected == port # 0 /\ handles[port].state \in {"opening", "open"}

\* C16: a running process is never stuck: every discovery, configuration,
\* open or read failure and every close leaves the handle variable cleared
\* and a reconnect timer pending, and in no state is there neither a handle
\* that is open or opening nor a pending reconnect timer.
C16_NeverStuck ==
    /\ [](proc = "running" => (Connected \/ BackedOff))
    /\ [][FailureHandled => (port' = 0 /\ Cardinality(timers') = 1
                                 /\ reconnectTimer' \in timers')]_vars

\* stty failed on the device found, and the next attempt is scheduled
C16_Witness ==
    /\ proc = "running"
    /\ Logged("Failed to configure serial port")
    /\ BackedOff
    /\ \A h \in HandleIds : handles[h].state = "free"

(***************************************************************************)
(* Properties of the update tick (Spec)                                    *)
(***************************************************************************)

\* C17: the updater ends the process only on a tick whose fetched marker is
\* non-empty, differs from the local one and whose replacement succeeded,
\* and only with the marker set to the fetched one; on a tick whose marker
\* is the local one, or whose fetch failed, nothing is replaced or written
\* and the process keeps running.
C17_ExitOnlyAfterUpdate ==
    /\ [][\A remoteSha \in RemoteVersions, applied \in BOOLEAN :
            CheckFetchedWith(remoteSha, applied)
            => IF remoteSha # 0 /\ remoteSha # versionFile /\ applied
               THEN /\ proc' = "exited" /\ exitCode' = 0
                    /\ versionFile' = remoteSha
                    /\ Replaced
               ELSE /\ UNCHANGED <<proc, exitCode, versionFile>>
                    /\ ~Replaced
                    /\ (remoteSha = 0 \/ remoteSha = versionFile) => logs' = <<>>]_vars
    /\ [][(FirstFetchDone \/ UpdateTick) => UNCHANGED <<proc, exitCode>>]_vars

\* a tick found marker 2 over marker 1, replaced the files and exited
C17_Witness ==
    /\ proc = "exited"
    /\ exitCode = 0
    /\ versionFile = 2
    /\ logs = << <<"Update available", 2>>, <<"Update applied, restarting...">> >>

(***************************************************************************)
(* Properties of concurrent deliveries (SpecRetry)                         *)
(***************************************************************************)

\* delivery i is not what it was
Changed(i) == Len(scans') < i \/ scans'[i] # scans[i]

\* the step touched a chain of event e or gave it one more
EventChanged(e) ==
    \/ ChainsIn(scans', e) # ChainsOf(e)
    \/ \E i \in ChainsOf(e) : Changed(i)

\* where a failure of attempt a leaves a delivery
AfterFailure(a) == IF a < config.sendRetries THEN "timer" ELSE "gaveup"

\* C18: the attempts made for an event depend only on the outcomes of its
\* own attempts: a failure, success or give-up of one event adds, removes,
\* delays or cancels no attempt of another, however their responses, errors
\* and timers interleave.
C18_EventsIndependent ==
    /\ [][proc' = "running" =>
            \A e \in Events :
                EventChanged(e) => \A f \in Events \ {e} : ~EventChanged(f)]_vars
    /\ [][\A i \in Deliveries :
            /\ (RequestErrorOn(i) \/ \E status \in StatusCodes \ SuccessCodes :
                                        ResponseEndWith(i, status))
                 => (scans'[i].st = AfterFailure(scans[i].attempt)
                        /\ scans'[i].posts = scans[i].posts)
            /\ RequestErrorAfterEndOn(i)
                 => (ChainsIn(scans', scans[i].scan.id)
                        = ChainsOf(scans[i].scan.id) \cup {Len(scans')})
            /\ RetryFireOn(i) => (scans'[i].st = "inflight"
                                     /\ Len(scans'[i].posts) = Attempts(i) + 1)]_vars
    /\ [](proc = "running" =>
            \A i \in Deliveries :
                /\ scans[i].st = "timer" => ENABLED RetryFireOn(i)
                /\ scans[i].st = "inflight" => ENABLED RequestErrorOn(i))

\* the second event went through all its attempts while the first one
\* still waits for its first retry timer
C18_Witness ==
    /\ Len(scans) = 2
    /\ scans[1].scan.id # scans[2].scan.id
    /\ scans[1].st = "timer"
    /\ Attempts(1) = 1
    /\ scans[2].st = "gaveup"
    /\ Attempts(2) = config.sendRetries
    /\ config.sendRetries >= 2

(***************************************************************************)
(* Properties of line extraction (SpecSend)                                *)
(***************************************************************************)

Terminators == {CR, LF}

\* the places of the terminators of s
TermPlaces(s) == { i \in 1..Len(s) : s[i] \in Terminators }

RECURSIVE Ascending(_)
Ascending(S) ==
    IF S = {} THEN <<>>
    ELSE LET m == CHOOSE x \in S : \A y \in S : x <= y
         IN  <<m>> \o Ascending(S \ {m})

\* what stands before the k-th terminator of s and after the one before it
Piece(s, k) ==
    LET ts == Ascending(TermPlaces(s))
    IN  SubSeq(s, IF k = 1 THEN 1 ELSE ts[k - 1] + 1, ts[k] - 1)

\* the non-empty trimmed lines of s in the order of their terminators
LinesInOrder(s) ==
    SelectSeq([k \in 1..Cardinality(TermPlaces(s)) |-> Trim(Piece(s, k))],
              LAMBDA l : l # <<>>)

\* what stands after the last terminator of s
Unterminated(s) ==
    IF TermPlaces(s) = {} THEN s
    ELSE SubSeq(s, (CHOOSE x \in TermPlaces(s) : \A y \in TermPlaces(s) : y <= x) + 1,
                Len(s))

\* what the handler logs for a line it handed to the normalizer
LineLog(line) ==
    IF parseCardData(line) = Null THEN <<"Card parse failed", line>>
    ELSE <<"Card scanned", parseCardData(line)>>

\* C19: when the data handler has finished a chunk the buffer holds no CR
\* and no LF: every complete line was cut at its earliest terminator, and
\* the lines went to the normalizer in the order their terminators arrived.
C19_LinesInArrivalOrder ==
    /\ [](\A h \in HandleIds : TermPlaces(handles[h].buf) = {})
    /\ [][\A h \in HandleIds, chunk \in Chunks :
            DataEvent(h, chunk, MaxScans)
            => LET s     == handles[h].buf \o chunk
                   lines == LinesInOrder(s)
               IN  /\ handles'[h].buf = Unterminated(s)
                   /\ Len(logs') = Len(lines)
                   /\ \A k \in 1..Len(lines) : logs'[k] = LineLog(lines[k])]_vars

\* bytes of an earlier chunk and a chunk of two lines: the first line is the
\* joined one, the second follows it, and nothing is left
C19_Witness ==
    /\ port # 0
    /\ handles[port].buf = <<>>
    /\ Len(logs) = 2
    /\ logs[1] = <<"Card parse failed", <<"x", "x">>>>
    /\ logs[2][1] = "Card scanned"
    /\ Len(scans) = 2

(***************************************************************************)
(* Properties of the buffer across connections (SpecLink)                  *)
(***************************************************************************)

\* C20: what a lost connection had buffered without a terminator is
\* dropped: a new connection starts with an empty buffer, the lines of a
\* handle are cut from its own bytes only, and a closed handle hands on no
\* line, so that nothing is replayed after a reconnect.
C20_BufferNotCarriedOver ==
    /\ [](\A h \in HandleIds :
            handles[h].state \in {"free", "opening"} => handles[h].buf = <<>>)
    /\ [][\A h \in HandleIds :
            /\ (handles[h].state = "free" /\ handles'[h].state # "free")
                 => handles'[h].buf = <<>>
            /\ handles[h].state = "closed"
                 => (handles'[h].state \in {"closed", "free"}
                       /\ handles'[h].buf \in {handles[h].buf, <<>>})]_vars
    /\ [][\A h \in HandleIds, chunk \in LinkChunks :
            DataEvent(h, chunk, MaxScansAll)
            => LET lines == LinesInOrder(handles[h].buf \o chunk)
               IN  /\ handles[h].state = "open"
                   /\ \A g \in HandleIds \ {h} : handles'[g] = handles[g]
                   /\ Len(logs') = Len(lines)
                   /\ \A k \in 1..Len(lines) : logs'[k] = LineLog(lines[k])]_vars

\* a handle closed with a byte buffered, and the line read on the handle
\* that replaced it is the line alone
C20_Witness ==
    /\ port # 0
    /\ handles[port].state = "open"
    /\ handles[port].buf = <<>>
    /\ \E g \in HandleIds \ {port} :
           handles[g].state = "closed" /\ handles[g].buf = <<"x">>
    /\ logs = << <<"Card scanned", <<"0", "0", "0", "0", "0", "0", "0", "0", "7">>>> >>

(***************************************************************************)
(* The order of the format rules (SpecParse)                               *)
(***************************************************************************)

\* t with zeros added on the left up to 9 characters
PaddedTo9(t) ==
    LET n == Max(9, Len(t))
    IN  [i \in 1..n |-> IF i <= n - Len(t) THEN "0" ELSE t[i - (n - Len(t))]]

\* what each rule of the specification gives for a line, Null for no match
DelimitedRule(s) == IF DelimitedForm(s) THEN PaddedTo9(Remainder(s)) ELSE Null

LongNumericRule(s) == IF LongNumericForm(s) THEN s ELSE Null

ShortNumericRule(s) == IF ShortNumericForm(s) THEN PaddedTo9(s) ELSE Null

RulesInOrder(s) == <<DelimitedRule(s), LongNumericRule(s), ShortNumericRule(s)>>

\* the result of the first rule that matches, Null when none does
FirstMatch(s) ==
    LET r == RulesInOrder(s)
    IN  IF \E k \in 1..3 : r[k] # Null
        THEN r[CHOOSE k \in 1..3 : r[k] # Null /\ \A j \in 1..(k - 1) : r[j] = Null]
        ELSE Null

\* C21: the normalizer's result is the result of the first of the rules
\* delimited, long numeric, short numeric that matches the line; a later
\* rule's result is returned only if every earlier rule reported no match,
\* and no match is returned only if all three do.
C21_FirstMatchingRule == parsed # <<>> => parsed = FirstMatch(raw)

\* the third rule answers after the first two reported no match
C21_Witness ==
    /\ raw = <<"7">>
    /\ DelimitedRule(raw) = Null /\ LongNumericRule(raw) = Null
    /\ parsed = ShortNumericRule(raw)
    /\ parsed = <<"0", "0", "0", "0", "0", "0", "0", "0", "7">>

(***************************************************************************)
(* Late events of a handle that was torn down (SpecLink)                   *)
(***************************************************************************)

\* the handle the module variable refers to is left as it is
CurrentUntouched ==
    /\ port' = port
    /\ handles'[port].state = handles[port].state

\* C22: a close or error event of a handle that scheduleReconnect has torn
\* down never closes, destroys or clears a handle that a later connectScanner
\* call opened.
C22_LateEventSparesNewHandle ==
    [][\A h \in HandleIds, ev \in {"error", "close"} :
          (QueuedOn(h, ev) /\ port # 0 /\ port # h) => CurrentUntouched]_vars

(***************************************************************************)
(* Live handles (SpecLink)                                                 *)
(***************************************************************************)

\* created and not yet closed or destroyed
Live(h) == handles[h].state \in {"opening", "open"}

LiveHandles == { h \in HandleIds : Live(h) }

\* C24: at every moment at most one serial handle is live, and a pending
\* reconnect timer never coexists with a live handle.
C24_AtMostOneLiveHandle ==
    /\ Cardinality(LiveHandles) <= 1
    /\ timers # {} => LiveHandles = {}

(***************************************************************************)
(* The chains of attempts of one event (SpecRetry)                         *)
(***************************************************************************)

\* the step called retry: it logged the retry or the give-up
RetryCalled ==
    \E k \in 1..Len(logs') : logs'[k][1] \in {"Retrying POST", "Gave up sending"}

\* C23: one delivery attempt results in at most one call of retry, even
\* when the response-end handler and the request-error handler both fire for
\* its request; so the attempts of one event form a single chain and their
\* number never exceeds sendRetries.
C23_OneRetryPerAttempt ==
    /\ [][\A i \in Deliveries : RequestErrorAfterEndOn(i) => ~RetryCalled]_vars
    /\ [](\A e \in Events : Cardinality(ChainsOf(e)) = 1)
    /\ [](\A e \in Events : EventAttempts(e) <= config.sendRetries)

(***************************************************************************)
(* What the attempts of one event send (SpecRetry)                         *)
(***************************************************************************)

\* the fields of a request body that come from the scan object
ScanFields(post) == <<post.id, post.cardId, post.timestamp>>

\* every request written for an event so far carries the fields of the
\* event's first request
SameFieldsSent ==
    \A i \in Deliveries, j \in Deliveries :
        scans[i].scan.id = scans[j].scan.id
        => \A k \in 1..Attempts(i), l \in 1..Attempts(j) :
               ScanFields(scans[i].posts[k]) = ScanFields(scans[j].posts[l])

\* C25: every retry attempt of an event sends the same id, cardId and
\* timestamp as its first attempt: sendToServer and retry never modify the
\* scan object, and only the attempt number changes between attempts.
C25_SamePayloadOnRetry ==
    /\ []SameFieldsSent
    /\ [][\A i \in Deliveries :
            Len(scans') >= i => scans'[i].scan = scans[i].scan]_vars
    /\ [][\A i \in Deliveries :
            RetryFireOn(i)
            => /\ scans'[i].attempt = scans[i].attempt + 1
               /\ ScanFields(scans'[i].posts[Len(scans'[i].posts)])
                     = <<scans[i].scan.id, scans[i].scan.data, scans[i].scan.timestamp>>]_vars

\* the third attempt of an event was written after two failures
C25_Witness ==
    \E i \in Deliveries :
        /\ Attempts(i) = 3
        /\ scans[i].attempt = 3
        /\ scans[i].st = "inflight"
        /\ ScanFields(scans[i].posts[3]) = ScanFields(scans[i].posts[1])

(***************************************************************************)
(* Chunk boundaries (SpecSplit)                                            *)
(***************************************************************************)

\* the bytes the device has still to send
Unsent == SubSeq(raw.bytes, raw.sent + 1, Len(raw.bytes))

\* the lines handed on so far followed by those the rest of the bytes gives
\* when it arrives as one chunk
LinesOfSplit ==
    parsed \o ExtractLines(handles[port].buf \o ToStringUtf8(Unsent), <<>>).lines

\* the lines the byte sequence gives when it arrives as one chunk
LinesOfWhole == ExtractLines(ToStringUtf8(raw.bytes), <<>>).lines

\* C26: for a fixed byte sequence received on one connection, the sequence
\* of non-empty trimmed lines handed to the normalizer is the same for every
\* way of splitting the bytes into data chunks.
C26_SplitIndependent ==
    (proc = "running" /\ port # 0 /\ handles[port].state = "open")
        => LinesOfSplit = LinesOfWhole

(***************************************************************************)
(* The normalizer applied to its own results (SpecParse)                   *)
(***************************************************************************)

\* C27: the normalizer is idempotent on its own outputs: applied to a card
\* identifier it returned, it returns that identifier again.
C27_IdempotentOnOutputs == Returned => parseCardData(parsed) = parsed

====
